---- MODULE Spec2Model ----
(***************************************************************************)
(* Saga orchestrator of ecommerce-microservices.                           *)
(*                                                                         *)
(* One task per POST /saga/transaction request runs on a cooperative event *)
(* loop: the code between two suspensions is one atomic action.  A task    *)
(* is suspended for the whole of a call_service invocation (the synthetic  *)
(* latency sleep followed by the HTTP exchange); nothing of the            *)
(* orchestrator's state changes between the two, so they are one wait.     *)
(***************************************************************************)
EXTENDS Integers, Sequences, FiniteSets, TLC

\* ---------------------------------------------------------------- bounds
MaxReq == 2          \* number of tasks (requests / direct callers) modelled

Tasks == 1..MaxReq

\* ------------------------------------------------------------- constants
\* Python None / JSON null.  Optional values are tuples so that they stay
\* comparable with None: JSON integer n is <<"int", n>>, the string of
\* decimal digits of n is <<"str", n>>, the empty string is <<"str">>.
None == <<>>
JInt(n) == <<"int", n>>
EmptyStr == <<"str">>

\* the identifiers one remote call carries in its URL or payload
NoArg == [transaction_id |-> 0, product_id |-> None, payment_id |-> None]
NoCall == [name |-> "none", service |-> "none", arg |-> NoArg]
NoError == [status_code |-> 0, detail |-> <<"none", "none">>]

PENDING == "PENDING"
COMPLETED == "COMPLETED"
COMPENSATED == "COMPENSATED"
FAILED == "FAILED"

\* models.py TransactionStatus
TransactionStatus == {PENDING, COMPLETED, COMPENSATED, FAILED}

\* datetime.now(): every reading is abstracted to one non-null stamp
Now == <<"now">>

\* config.py Settings.SERVICES
SERVICES == {"catalog", "payments", "inventory", "purchases"}

\* mutant: the stock is decreased before the payment is taken
ForwardStepsInventoryFirst == <<"catalog", "inventory", "payments", "purchases">>

\* the fixed order of the forward steps in execute_saga
ForwardSteps == <<"catalog", "payments", "inventory", "purchases">>

StepIndex(name) == CHOOSE k \in 1..4 : ForwardSteps[k] = name

\* str(x) of Python applied to a JSON value: the integer n becomes the
\* string of its digits, a string stays itself
Str(x) == IF x[1] = "int" THEN <<"str", x[2]>> ELSE x

\* str(e) of an exception e: "<status_code>: <detail>"
StrExc(e) == <<"str", e>>

\* truthiness of an optional JSON value: None, 0 and "" are falsy
Truthy(x) == x /= None /\ x /= JInt(0) /\ x /= EmptyStr

\* dict.get(key): None when the key is absent
DictGet(d, k) == IF k \in DOMAIN d THEN d[k] ELSE None

\* ------------------------------------------------------ the environment
\* requests a client may POST (None: field missing)
Requests ==
  { [user_id |-> <<"str", 1>>, amount |-> JInt(10)],
    [user_id |-> <<"str", 1>>, amount |-> JInt(0)],
    [user_id |-> <<"str", 1>>, amount |-> JInt(-5)],
    [user_id |-> None,         amount |-> JInt(10)],
    [user_id |-> <<"str", 1>>, amount |-> None] }

\* decoded 2xx bodies a participant may answer with: the catalog names
\* the product it picked; payments/app/views.py answers 200 without a
\* payment_id, PaymentResponseSerializer describes an answer with one
JsonBodies(service_name) ==
  CASE service_name = "catalog"  -> { [product_id |-> JInt(1)] }
    [] service_name = "payments" -> { [payment_id |-> JInt(123)],
                                      [payment_id |-> EmptyStr],
                                      [status |-> "success"] }
    [] OTHER                     -> { [status |-> "success"] }

NoBody == [status |-> "none"]

\* what one HTTP exchange with a participant can produce
RawOutcomes(service_name) ==
  { [kind |-> "response", status |-> s, json |-> TRUE, body |-> b] :
        s \in {200, 201}, b \in JsonBodies(service_name) }
  \cup { [kind |-> "response", status |-> 200, json |-> FALSE, body |-> NoBody] }
  \cup { [kind |-> "response", status |-> s, json |-> TRUE, body |-> NoBody] :
        s \in {409, 500} }
  \cup { [kind |-> "timeout", status |-> 0, json |-> FALSE, body |-> NoBody],
         [kind |-> "connect_error", status |-> 0, json |-> FALSE, body |-> NoBody] }

\* status codes a participant, or a proxy in front of it, may answer with
StatusCodes == {200, 201, 204, 400, 404, 409, 422, 500, 502, 503, 504}

\* every HTTP exchange call_service may see: a 2xx with one of the JSON
\* bodies, any status with a body that is not JSON (an empty one included),
\* an error status with a JSON body, no answer in time, no connection
HttpExchanges(service_name) ==
  { [kind |-> "response", status |-> s, json |-> TRUE, body |-> b] :
        s \in {c \in StatusCodes : c \in 200..299}, b \in JsonBodies(service_name) }
  \cup { [kind |-> "response", status |-> s, json |-> FALSE, body |-> NoBody] :
        s \in StatusCodes }
  \cup { [kind |-> "response", status |-> s, json |-> TRUE, body |-> NoBody] :
        s \in {c \in StatusCodes : c \notin 200..299} }
  \cup { [kind |-> "timeout", status |-> 0, json |-> FALSE, body |-> NoBody],
         [kind |-> "connect_error", status |-> 0, json |-> FALSE, body |-> NoBody] }

\* service names a caller may pass: the configured ones and one that is not
ServiceNames == SERVICES \cup {"shipping"}

\* ------------------------------------------------------------- variables
VARIABLES
  transactions,       \* the TransactionState objects, by transaction_id
  transaction_store,  \* keys of TransactionStore._transactions, insertion order
                      \* (the values are references to the objects above)
  pc,                 \* per task: "idle", "await" (in call_service), "done"
  caller,             \* per task: "none", "route" (POST handler) or "direct"
  request,            \* per task: the validated TransactionRequest
  txn,                \* per task: transaction_id of its record (0: none)
  cur,                \* per task: the remote call being made
  exc,                \* per task: the step exception being handled
  compensations,      \* per task: rest of the compensation loop
  outcome,            \* per task: how its coroutine ended, and the
                      \* exception it raised
  response,           \* the HTTP response the step just taken sent to the
                      \* client, with the task it answers (else NoResponse)
  trace,              \* per transaction: remote calls issued and returned
  passes,             \* per transaction: execute_all_compensations runs
  stamped,            \* per transaction: assignments made to completed_at
  got,                \* the answer the step just taken gave to a GET of the
                      \* saga API, with the task it answers (else NoGot)
  exchange,           \* one call_service exchange and what it came to
  tested_store,       \* a TransactionStore of its own: the dict (keys in
                      \* order, values by key), what the last operation
                      \* returned, and the map it is compared with
  purchase_db,        \* purchases service: the rows of table purchases
                      \* (id = position), the last operation and its result,
                      \* and the ids of the purchases confirmed so far
  inventory_db        \* inventory service: stock per product, the rows of
                      \* inventory_operation by operation_id, the last
                      \* operation and its result

vars == <<transactions, transaction_store, pc, caller, request, txn, cur, exc,
          compensations, outcome, response, trace, passes, stamped, got, exchange,
          tested_store, purchase_db, inventory_db>>

NoRequest == [user_id |-> None, amount |-> None]
NoResponse == [task |-> 0, code |-> 0, transaction_id |-> 0, status |-> "none",
               product_id |-> None, payment_id |-> None, error |-> None]
NoOutcome == [saga |-> "none", compensation |-> "none", error |-> NoError]
NoGot == [task |-> 0, route |-> "none", code |-> 0, transaction_id |-> 0,
          found |-> <<>>, total |-> 0, transactions |-> <<>>]
NoExchange == [service |-> "none", raw |-> NoBody, result |-> NoBody]

\* ------------------------------------------------------- pure functions
\* mutant: the amount is only required not to be negative (ge=0)
ValidRequestNonNegative(req) ==
  /\ req.user_id /= None
  /\ req.amount /= None
  /\ req.amount[2] >= 0

\* models.py TransactionRequest: user_id and amount required, amount gt=0
ValidRequest(req) ==
  /\ req.user_id /= None
  /\ req.amount /= None
  /\ req.amount[2] > 0

\* SagaService._create_transaction
CreateTransaction(purchase_request, transaction_id) ==
  [ transaction_id      |-> transaction_id,
    status              |-> PENDING,
    user_id             |-> purchase_request.user_id,
    product_id          |-> None,
    payment_id          |-> None,
    inventory_updated   |-> FALSE,
    purchase_registered |-> FALSE,
    amount              |-> purchase_request.amount,
    created_at          |-> Now,
    completed_at        |-> None,
    error_message       |-> None ]

\* HTTPException(status_code, detail) raised by call_service
HTTPException(status_code, class, service_name) ==
  [status_code |-> status_code, detail |-> <<class, service_name>>]

Raise(e) == [raised |-> TRUE, error |-> e, body |-> NoBody]
Return(body) == [raised |-> FALSE, error |-> NoError, body |-> body]

\* ServiceClient.call_service: classification of one HTTP exchange
CallService(service_name, raw) ==
  IF service_name \notin SERVICES
    THEN Raise(HTTPException(0, "unknown service", service_name))
  ELSE IF raw.kind = "timeout"
    THEN Raise(HTTPException(504, "timeout", service_name))
  ELSE IF raw.kind = "connect_error"
    THEN Raise(HTTPException(503, "unavailable", service_name))
  ELSE IF raw.status = 409
    THEN Raise(HTTPException(409, "conflict", service_name))
  ELSE IF raw.status < 200 \/ raw.status > 299
    THEN Raise(HTTPException(raw.status, "error", service_name))
  ELSE IF ~raw.json
    THEN Raise(HTTPException(503, "unavailable", service_name))
  ELSE Return(raw.body)

\* SagaService._step_get_product, after the call returned
StepGetProduct(t, product_response) ==
  [t EXCEPT !.product_id =
     IF Truthy(DictGet(product_response, "product_id"))
       THEN Str(DictGet(product_response, "product_id")) ELSE None]

\* SagaService._step_process_payment, after the call returned
StepProcessPayment(t, payment_response) ==
  [t EXCEPT !.payment_id =
     IF Truthy(DictGet(payment_response, "payment_id"))
       THEN Str(DictGet(payment_response, "payment_id")) ELSE None]

\* mutant: the record is marked COMPLETED before the last step has run
StepUpdateInventoryCompletes(t) ==
  [t EXCEPT !.inventory_updated = TRUE, !.status = COMPLETED]

\* mutant: the purchase is marked registered one step early
StepUpdateInventoryRegisters(t) ==
  [t EXCEPT !.inventory_updated = TRUE, !.purchase_registered = TRUE]

\* SagaService._step_update_inventory, after the call returned
StepUpdateInventory(t) == [t EXCEPT !.inventory_updated = TRUE]

\* SagaService._step_register_purchase, after the call returned
StepRegisterPurchase(t) == [t EXCEPT !.purchase_registered = TRUE]

\* the assignment a forward step makes once its call has returned
StepEffect(step, t, body) ==
  CASE step = "catalog"   -> StepGetProduct(t, body)
    [] step = "payments"  -> StepProcessPayment(t, body)
    [] step = "inventory" -> StepUpdateInventory(t)
    [] step = "purchases" -> StepRegisterPurchase(t)

\* mutant: the status is set and completed_at is left for later
MarkCompletedUnstamped(t) == [t EXCEPT !.status = COMPLETED]

\* execute_saga, success path after step 4
MarkCompleted(t) == [t EXCEPT !.status = COMPLETED, !.completed_at = Now]

\* mutant: a failed saga ends in the status FAILED
MarkFailed(t) == [t EXCEPT !.status = FAILED, !.completed_at = Now]

\* mutant: a compensated record no longer shows the stock as decreased
MarkCompensatedResets(t) ==
  [t EXCEPT !.status = COMPENSATED, !.completed_at = Now,
            !.inventory_updated = FALSE]

\* execute_saga, except path after the compensation pass
MarkCompensated(t) == [t EXCEPT !.status = COMPENSATED, !.completed_at = Now]

\* mutant: the error of the failed step is not written to the record
RecordErrorDropped(t, e) == t

\* mutant: the record is marked COMPENSATED when the error is recorded
RecordErrorCompensated(t, e) ==
  [t EXCEPT !.error_message = StrExc(e), !.status = COMPENSATED]

\* execute_saga, except path: transaction.error_message = str(e)
RecordError(t, e) == [t EXCEPT !.error_message = StrExc(e)]

\* the remote call each forward step issues
ForwardCall(step, t) ==
  [ name |-> step, service |-> step,
    arg |-> CASE step = "catalog"   -> NoArg
              [] step = "payments"  -> [NoArg EXCEPT !.product_id = t.product_id]
              [] step = "inventory" -> [NoArg EXCEPT !.product_id = t.product_id]
              [] step = "purchases" ->
                   [ transaction_id |-> t.transaction_id,
                     product_id     |-> t.product_id,
                     payment_id     |-> t.payment_id ] ]

\* mutant: the list is built in the order of the forward steps
CompensationsForwardOrder(t) ==
  (IF Truthy(t.payment_id) THEN <<"payment">> ELSE <<>>)
  \o (IF t.purchase_registered THEN <<"purchase">> ELSE <<>>)

\* CompensationService.execute_all_compensations: the list it builds
Compensations(t) ==
  (IF t.purchase_registered THEN <<"purchase">> ELSE <<>>)
  \o (IF Truthy(t.payment_id) THEN <<"payment">> ELSE <<>>)

\* compensate_purchase / compensate_payment: the early "return True"
CompensationSkipped(name, t) ==
  IF name = "purchase" THEN ~t.purchase_registered ELSE ~Truthy(t.payment_id)

\* mutant: the compensating calls name identifiers that are not the record's
CompensationCallForeign(name, t) ==
  IF name = "purchase"
    THEN [ name |-> "cancel", service |-> "purchases",
           arg |-> [NoArg EXCEPT !.transaction_id = t.transaction_id + 1] ]
    ELSE [ name |-> "refund", service |-> "payments",
           arg |-> [NoArg EXCEPT !.payment_id = <<"str", 124>>] ]

\* mutant: after a failure the payment step is tried again
CompensationCallRetries(name, t) == ForwardCall("payments", t)

\* compensate_purchase / compensate_payment: the call they issue
CompensationCall(name, t) ==
  IF name = "purchase"
    THEN [ name |-> "cancel", service |-> "purchases",
           arg |-> [NoArg EXCEPT !.transaction_id = t.transaction_id] ]
    ELSE [ name |-> "refund", service |-> "payments",
           arg |-> [NoArg EXCEPT !.payment_id = t.payment_id] ]

\* mutant: neither compensate_x nor the loop catches what call_service raises
CompensationIterationPropagates(res) ==
  [ raised |-> res.raised, result |-> ~res.raised ]

\* one iteration of the loop of execute_all_compensations, given what
\* call_service did: compensate_x turns an exception into False, and the
\* loop's own try/except logs whatever else is raised
CompensationIteration(res) ==
  [ raised |-> FALSE, result |-> ~res.raised ]

\* the loop skips over compensations that return at once without a call
RECURSIVE RestOfLoop(_, _)
RestOfLoop(list, t) ==
  IF list = <<>> THEN <<>>
  ELSE IF CompensationSkipped(Head(list), t) THEN RestOfLoop(Tail(list), t)
  ELSE list

\* mutant: every compensation is attempted, whatever the record says
CompensationPlanUnconditional(t) == <<"purchase", "payment">>

\* execute_all_compensations: the compensations a pass starts with, the
\* list it builds less the entries that return without a call
CompensationPlan(t) == RestOfLoop(Compensations(t), t)

\* mutant: nothing is written to the store
SaveSkipped(store, transaction_id) == store

\* mutant: every save adds an entry, as a list of saved records would
SaveAppending(store, transaction_id) == Append(store, transaction_id)

\* TransactionStore.save: the key keeps its place when already present
Save(store, transaction_id) ==
  IF \E i \in 1..Len(store) : store[i] = transaction_id
    THEN store ELSE Append(store, transaction_id)

\* TransactionStore.get_all
GetAll(store, heap) == [i \in 1..Len(store) |-> heap[store[i]]]

\* mutant: a record is only found once its saga has ended
GetTerminalOnly(store, heap, transaction_id) ==
  IF /\ \E i \in 1..Len(store) : store[i] = transaction_id
     /\ heap[transaction_id].status /= PENDING
    THEN <<heap[transaction_id]>> ELSE <<>>

\* TransactionStore.get: <<the record>>, or <<>> for None
Get(store, heap, transaction_id) ==
  IF \E i \in 1..Len(store) : store[i] = transaction_id
    THEN <<heap[transaction_id]>> ELSE <<>>

\* TransactionStore.count
Count(store) == Len(store)

\* TransactionStore.delete: the keys left, and the value returned
Delete(store, transaction_id) ==
  SelectSeq(store, LAMBDA key : key /= transaction_id)

DeleteReturns(store, transaction_id) ==
  \E i \in 1..Len(store) : store[i] = transaction_id

\* the ids and the TransactionDetail objects a TransactionStore is tried with
StoreKeys == 1..(MaxReq + 1)
StoreRecords == [transaction_id : StoreKeys, status : {PENDING, COMPLETED}]

\* TransactionStore.__init__; last (per id, <<the record saved last>> or <<>>
\* after a delete) and before (pairs of present ids, the first inserted
\* earlier) are the map the dict is compared with
EmptyStore ==
  [ keys |-> <<>>, values |-> [key \in {} |-> None],
    op |-> <<"init", 0>>, returned |-> None,
    last |-> [key \in StoreKeys |-> <<>>], before |-> {} ]

\* initiate_transaction, success path
SuccessResponse(t) ==
  [ task |-> 0,
    code |-> 200, transaction_id |-> t.transaction_id, status |-> t.status,
    product_id |-> t.product_id, payment_id |-> t.payment_id, error |-> None ]

\* the record initiate_transaction reports on when execute_saga raised
LastTransaction(all) == all[Len(all)]

\* initiate_transaction, except path ("unknown" is transaction_id 0)
FailureResponse(store, heap, e) ==
  LET all == GetAll(store, heap) IN
  IF all = <<>>
    THEN [ task |-> 0,
           code |-> 409, transaction_id |-> 0, status |-> COMPENSATED,
           product_id |-> None, payment_id |-> None, error |-> StrExc(e) ]
    ELSE [ task |-> 0,
           code |-> 409,
           transaction_id |-> LastTransaction(all).transaction_id,
           status |-> COMPENSATED,
           product_id |-> LastTransaction(all).product_id,
           payment_id |-> LastTransaction(all).payment_id,
           error |-> LastTransaction(all).error_message ]

\* FastAPI's answer to a body that fails TransactionRequest validation
ValidationResponse == [NoResponse EXCEPT !.code = 422]

\* get_transaction_status: 404 when the store has no record for the id
StatusResponse(transaction_id, transaction) ==
  [ NoGot EXCEPT !.route = "status",
                 !.code = IF transaction = <<>> THEN 404 ELSE 200,
                 !.transaction_id = transaction_id,
                 !.found = transaction ]

\* list_transactions
ListResponse(store, heap) ==
  [ NoGot EXCEPT !.route = "list",
                 !.code = 200,
                 !.total = Count(store),
                 !.transactions = GetAll(store, heap) ]

\* ------------------------------------------------------ trace of calls
Issue(call) == [ev |-> "issue", call |-> call.name, arg |-> call.arg, ok |-> TRUE]
Returned(call, ok) == [ev |-> "return", call |-> call.name, arg |-> call.arg, ok |-> ok]

\* ------------------------------------------- the purchases service
STATUS_PENDING == "pending"
STATUS_CONFIRMED == "confirmed"
STATUS_CANCELLED == "cancelled"
STATUS_FAILED == "failed"

\* Purchase.objects.create(customer_id, saga_id): status defaults to pending
NewPurchase(saga_id) ==
  [status |-> STATUS_PENDING, saga_id |-> saga_id, error_message |-> None]

\* what a method of Purchase leaves: the row, and whether ValueError was raised
Raises(purchase) == [purchase |-> purchase, raised |-> TRUE]
Saves(purchase) == [purchase |-> purchase, raised |-> FALSE]

\* mutant: confirm() without its guard
ConfirmUnguarded(purchase) ==
  Saves([purchase EXCEPT !.status = STATUS_CONFIRMED])

\* Purchase.confirm
Confirm(purchase) ==
  IF purchase.status /= STATUS_PENDING
    THEN Raises(purchase)
    ELSE Saves([purchase EXCEPT !.status = STATUS_CONFIRMED])

\* mutant: cancel() without its guard
CancelUnguarded(purchase) ==
  Saves([purchase EXCEPT !.status = STATUS_CANCELLED])

\* Purchase.cancel
Cancel(purchase) ==
  IF purchase.status = STATUS_CONFIRMED
    THEN Raises(purchase)
    ELSE Saves([purchase EXCEPT !.status = STATUS_CANCELLED])

\* Purchase.fail
Fail(purchase, error_message) ==
  Saves([purchase EXCEPT
           !.status = STATUS_FAILED,
           !.error_message = IF Truthy(error_message) THEN error_message ELSE @])

\* PurchaseRepository.get_by_id: the id of the row, 0 for None
GetById(rows, purchase_id) ==
  IF purchase_id /= None /\ purchase_id[2] \in 1..Len(rows)
    THEN purchase_id[2] ELSE 0

\* PurchaseRepository.get_by_saga_id: the id of the row, 0 for None
GetBySagaId(rows, saga_id) ==
  IF \E id \in 1..Len(rows) : rows[id].saga_id = saga_id
    THEN CHOOSE id \in 1..Len(rows) : rows[id].saga_id = saga_id
    ELSE 0

\* what an operation of the repository or the service leaves
Outcome(rows, raised, returned) ==
  [rows |-> rows, raised |-> raised, returned |-> returned]

\* a method of Purchase called on the instance just read from row id
OnRow(rows, id, done) ==
  Outcome([rows EXCEPT ![id] = done.purchase], done.raised, None)

\* PurchaseRepository.confirm_purchase / cancel_purchase / fail_purchase:
\* False when the row does not exist or the method raised ValueError
ViaRepository(rows, id, done) ==
  IF id \notin 1..Len(rows)
    THEN Outcome(rows, FALSE, <<FALSE>>)
    ELSE Outcome([rows EXCEPT ![id] = done.purchase], FALSE, <<~done.raised>>)

\* mutant: cancel_purchase lets the ValueError of cancel() through
CancelPurchasePropagates(rows, id) ==
  IF id \notin 1..Len(rows)
    THEN Outcome(rows, FALSE, <<FALSE>>)
    ELSE Outcome([rows EXCEPT ![id] = Cancel(rows[id]).purchase],
                 Cancel(rows[id]).raised, <<~Cancel(rows[id]).raised>>)

ConfirmPurchase(rows, id) ==
  ViaRepository(rows, id, IF id \in 1..Len(rows) THEN Confirm(rows[id]) ELSE None)

CancelPurchase(rows, id) ==
  ViaRepository(rows, id, IF id \in 1..Len(rows) THEN Cancel(rows[id]) ELSE None)

FailPurchase(rows, id, error_message) ==
  ViaRepository(rows, id,
                IF id \in 1..Len(rows) THEN Fail(rows[id], error_message) ELSE None)

\* the dict a service operation returns
ServiceResult(success, status, purchase_id, error) ==
  [success |-> success, status |-> status, purchase_id |-> purchase_id,
   error |-> error]

\* PurchaseService.process_purchase; succeeds is the draw
\* random.random() < SUCCESS_RATE
ProcessPurchase(rows, succeeds) ==
  LET id == Len(rows) + 1
      created == NewPurchase(<<"str", id>>)
      done == IF succeeds THEN Confirm(created)
                          ELSE Fail(created, <<"str", "Simulated failure">>)
  IN IF done.raised
       THEN Outcome(Append(rows, done.purchase), FALSE,
                    ServiceResult(FALSE, "error", 0, "INTERNAL_ERROR"))
     ELSE IF succeeds
       THEN Outcome(Append(rows, done.purchase), FALSE,
                    ServiceResult(TRUE, "confirmed", id, "none"))
     ELSE Outcome(Append(rows, done.purchase), FALSE,
                  ServiceResult(FALSE, "failed", id, "SAGA_EXECUTION_FAILED"))

\* PurchaseService.compensate_purchase
CompensatePurchase(rows, purchase_id, saga_id) ==
  IF ~Truthy(saga_id) /\ ~Truthy(purchase_id)
    THEN Outcome(rows, FALSE, ServiceResult(FALSE, "none", 0, "MISSING_IDENTIFIER"))
  ELSE
    LET id == IF Truthy(saga_id) THEN GetBySagaId(rows, saga_id)
                                 ELSE GetById(rows, purchase_id)
    IN IF id = 0
         THEN Outcome(rows, FALSE, ServiceResult(FALSE, "none", 0, "NOT_FOUND"))
       ELSE
         LET cancelled == CancelPurchase(rows, id)
         IN IF cancelled.raised
              THEN Outcome(cancelled.rows, FALSE,
                           ServiceResult(FALSE, "none", 0, "COMPENSATION_ERROR"))
            ELSE IF cancelled.returned[1]
              THEN Outcome(cancelled.rows, FALSE,
                           ServiceResult(TRUE, "cancelled", id, "none"))
              ELSE Outcome(cancelled.rows, FALSE,
                           ServiceResult(FALSE, rows[id].status, id, "INVALID_STATE"))

\* the identifiers the purchases service is called with
PurchaseIds == {None, JInt(0)} \cup {JInt(n) : n \in 1..(MaxReq + 1)}
SagaIds == {None, EmptyStr} \cup {<<"str", n>> : n \in 1..(MaxReq + 1)}
ErrorMessages == {None, <<"str", "Test error message">>}

NoOp == [name |-> "none", purchase_id |-> None, saga_id |-> None]

EmptyPurchases ==
  [ rows |-> <<>>, op |-> NoOp, raised |-> FALSE, returned |-> None,
    was_confirmed |-> {} ]

\* ------------------------------------------- the inventory service
\* the rows of table inventory at the start: product 1 is stocked, product
\* 2 is unknown; operation ids and quantities of the requests
Products == {1, 2}
OperationIds == 1..MaxReq
Quantities == 1..MaxReq

NoReturn == [status |-> "none", stock |-> 0, idempotent |-> FALSE]
NoInventoryOp ==
  [name |-> "none", operation_id |-> 0, product_id |-> 0, quantity |-> 0]

InitialInventory ==
  [ stock |-> [product_id \in {1} |-> MaxReq],
    operations |-> [operation_id \in {} |-> None],
    op |-> NoInventoryOp, raised |-> "none", returned |-> NoReturn ]

\* the function left when the exception leaves the @transaction.atomic
\* block: every write of the call is rolled back
RolledBack(db, exception) ==
  [stock |-> db.stock, operations |-> db.operations,
   raised |-> exception, returned |-> NoReturn]

\* InventoryOperation.objects.create: operation_id is unique
CreateOperation(db, stock, operation_id, product_id, quantity, status, returned) ==
  IF operation_id \in DOMAIN db.operations
    THEN RolledBack(db, "IntegrityError")
    ELSE [ stock |-> stock,
           operations |->
             [key \in DOMAIN db.operations \cup {operation_id} |->
                IF key = operation_id
                  THEN [product_id |-> product_id, quantity |-> quantity,
                        status |-> status]
                  ELSE db.operations[key]],
           raised |-> "none", returned |-> returned ]

\* a 'failed' row is created and InsufficientStockError raised: the row is
\* rolled back with the rest, or its creation raises first
FailedOperation(db, operation_id) ==
  IF operation_id \in DOMAIN db.operations
    THEN RolledBack(db, "IntegrityError")
    ELSE RolledBack(db, "InsufficientStockError")

\* the idempotent answers read Inventory.objects.get(product_id=product_id)
IdempotentAnswer(db, product_id, status) ==
  IF product_id \notin DOMAIN db.stock
    THEN RolledBack(db, "DoesNotExist")
    ELSE [ stock |-> db.stock, operations |-> db.operations, raised |-> "none",
           returned |-> [status |-> status, stock |-> db.stock[product_id],
                         idempotent |-> TRUE] ]

\* mutant: the operation is applied again when its id is already known
DecreaseStockRepeats(db, operation_id, product_id, quantity, no_stock) ==
  IF no_stock \/ product_id \notin DOMAIN db.stock
    THEN RolledBack(db, "InsufficientStockError")
  ELSE IF db.stock[product_id] < quantity
    THEN RolledBack(db, "InsufficientStockError")
  ELSE [ stock |-> [db.stock EXCEPT ![product_id] = @ - quantity],
         operations |->
           [key \in DOMAIN db.operations \cup {operation_id} |->
              IF key = operation_id
                THEN [product_id |-> product_id, quantity |-> 0 - quantity,
                      status |-> "applied"]
                ELSE db.operations[key]],
         raised |-> "none",
         returned |-> [status |-> "updated",
                       stock |-> db.stock[product_id] - quantity,
                       idempotent |-> FALSE] ]

\* InventoryService.decrease_stock; no_stock is the draw
\* random.random() < NO_STOCK_RATE
DecreaseStock(db, operation_id, product_id, quantity, no_stock) ==
  LET known == operation_id \in DOMAIN db.operations IN
  IF known /\ db.operations[operation_id].status = "applied"
    THEN IdempotentAnswer(db, product_id, "updated")
  ELSE IF known /\ db.operations[operation_id].status = "failed"
    THEN RolledBack(db, "InsufficientStockError")
  ELSE IF no_stock
    THEN FailedOperation(db, operation_id)
  ELSE IF product_id \notin DOMAIN db.stock
    THEN FailedOperation(db, operation_id)
  ELSE IF db.stock[product_id] < quantity
    THEN FailedOperation(db, operation_id)
  ELSE CreateOperation(db, [db.stock EXCEPT ![product_id] = @ - quantity],
                       operation_id, product_id, 0 - quantity, "applied",
                       [status |-> "updated",
                        stock |-> db.stock[product_id] - quantity,
                        idempotent |-> FALSE])

\* InventoryService.compensate
InventoryCompensate(db, operation_id, product_id, quantity) ==
  IF /\ operation_id \in DOMAIN db.operations
     /\ db.operations[operation_id].status = "reverted"
    THEN IdempotentAnswer(db, product_id, "compensated")
  ELSE
    LET old == IF product_id \in DOMAIN db.stock THEN db.stock[product_id] ELSE 0
        stock == [key \in DOMAIN db.stock \cup {product_id} |->
                    IF key = product_id THEN old + quantity ELSE db.stock[key]]
    IN CreateOperation(db, stock, operation_id, product_id, quantity, "reverted",
                       [status |-> "compensated", stock |-> old + quantity,
                        idempotent |-> FALSE])

\* ------------------------------------------------------------ the state
Init ==
  /\ transactions = <<>>
  /\ transaction_store = <<>>
  /\ pc = [r \in Tasks |-> "idle"]
  /\ caller = [r \in Tasks |-> "none"]
  /\ request = [r \in Tasks |-> NoRequest]
  /\ txn = [r \in Tasks |-> 0]
  /\ cur = [r \in Tasks |-> NoCall]
  /\ exc = [r \in Tasks |-> NoError]
  /\ compensations = [r \in Tasks |-> <<>>]
  /\ outcome = [r \in Tasks |-> NoOutcome]
  /\ response = NoResponse
  /\ trace = <<>>
  /\ passes = <<>>
  /\ stamped = <<>>
  /\ got = NoGot
  /\ exchange = NoExchange
  /\ tested_store = EmptyStore
  /\ purchase_db = EmptyPurchases
  /\ inventory_db = InitialInventory

\* mutant: the latency delay and the remote call hold the thread, so that a
\* request is taken up only when every earlier task has finished
NextToStartBlocking(r) ==
  pc[r] = "idle" /\ \A q \in Tasks : q < r => pc[q] = "done"

\* tasks are numbered in the order in which the event loop starts them
NextToStart(r) == pc[r] = "idle" /\ \A q \in Tasks : q < r => pc[q] /= "idle"

IsForward(call) == call.name \in {"catalog", "payments", "inventory", "purchases"}
IsCompensation(call) == call.name \in {"cancel", "refund"}

\* records a direct caller may hand to execute_all_compensations
ExternalRecords(transaction_id) ==
  { [CreateTransaction([user_id |-> <<"str", 1>>, amount |-> JInt(10)],
                       transaction_id)
       EXCEPT !.purchase_registered = b, !.payment_id = p] :
      b \in BOOLEAN, p \in {None, <<"str", 123>>} }

\* ---------------------------------------------------------- the actions
\* POST /saga/transaction with a body that TransactionRequest rejects
RejectRequest(r, req) ==
  /\ NextToStart(r)
  /\ ~ValidRequest(req)
  /\ pc' = [pc EXCEPT ![r] = "done"]
  /\ caller' = [caller EXCEPT ![r] = "route"]
  /\ response' = [ValidationResponse EXCEPT !.task = r]
  /\ got' = NoGot
  /\ UNCHANGED <<transactions, transaction_store, request, txn, cur, exc,
                 compensations, outcome, trace, passes, stamped, exchange, tested_store, purchase_db,
                 inventory_db>>

\* POST /saga/transaction: initiate_transaction enters execute_saga, which
\* creates and saves the record and suspends in the first call_service
InitiateTransaction(r, req) ==
  /\ NextToStart(r)
  /\ ValidRequest(req)
  /\ LET transaction_id == Len(transactions) + 1
         t == CreateTransaction(req, transaction_id)
     IN /\ transactions' = Append(transactions, t)
        /\ transaction_store' = Save(transaction_store, transaction_id)
        /\ txn' = [txn EXCEPT ![r] = transaction_id]
        /\ cur' = [cur EXCEPT ![r] = ForwardCall(ForwardSteps[1], t)]
        /\ trace' = Append(trace, <<Issue(ForwardCall(ForwardSteps[1], t))>>)
  /\ passes' = Append(passes, 0)
  /\ stamped' = Append(stamped, 0)
  /\ pc' = [pc EXCEPT ![r] = "await"]
  /\ caller' = [caller EXCEPT ![r] = "route"]
  /\ request' = [request EXCEPT ![r] = req]
  /\ response' = NoResponse
  /\ got' = NoGot
  /\ UNCHANGED <<exc, compensations, outcome, exchange, tested_store, purchase_db,
                 inventory_db>>

\* execute_all_compensations: the loop goes on with the list L, or is over
\* and control is back in the caller (execute_saga's except path, which
\* marks the record and re-raises into initiate_transaction)
LoopStep(r, id, T, S, L, e, who, tr, st) ==
  IF L /= <<>> THEN
    /\ trace' = [tr EXCEPT ![id] = Append(@, Issue(CompensationCall(Head(L), T[id])))]
    /\ stamped' = st
    /\ transactions' = T
    /\ transaction_store' = S
    /\ cur' = [cur EXCEPT ![r] = CompensationCall(Head(L), T[id])]
    /\ compensations' = [compensations EXCEPT ![r] = Tail(L)]
    /\ pc' = [pc EXCEPT ![r] = "await"]
    /\ response' = NoResponse
    /\ UNCHANGED outcome
  ELSE IF who = "direct" THEN
    /\ trace' = tr
    /\ stamped' = st
    /\ transactions' = T
    /\ transaction_store' = S
    /\ cur' = [cur EXCEPT ![r] = NoCall]
    /\ compensations' = [compensations EXCEPT ![r] = <<>>]
    /\ pc' = [pc EXCEPT ![r] = "done"]
    /\ outcome' = [outcome EXCEPT ![r] =
                     [saga |-> "none", compensation |-> "returned",
                      error |-> NoError]]
    /\ response' = NoResponse
  ELSE
    LET T2 == [T EXCEPT ![id] = MarkCompensated(T[id])]
        S2 == Save(S, id)
    IN /\ trace' = tr
       /\ stamped' = [st EXCEPT ![id] = @ + 1]
       /\ transactions' = T2
       /\ transaction_store' = S2
       /\ cur' = [cur EXCEPT ![r] = NoCall]
       /\ compensations' = [compensations EXCEPT ![r] = <<>>]
       /\ pc' = [pc EXCEPT ![r] = "done"]
       /\ outcome' = [outcome EXCEPT ![r] =
                        [saga |-> "raised", compensation |-> "returned",
                         error |-> e]]
       /\ response' = [FailureResponse(S2, T2, e) EXCEPT !.task = r]

\* execute_all_compensations: an exception leaves the loop; execute_saga's
\* except path is abandoned before the status assignment
LoopRaises(r, e, who, tr) ==
  /\ trace' = tr
  /\ cur' = [cur EXCEPT ![r] = NoCall]
  /\ compensations' = [compensations EXCEPT ![r] = <<>>]
  /\ pc' = [pc EXCEPT ![r] = "done"]
  /\ UNCHANGED <<transactions, transaction_store, stamped>>
  /\ IF who = "direct"
       THEN /\ outcome' = [outcome EXCEPT ![r] =
                             [saga |-> "none", compensation |-> "raised",
                              error |-> e]]
            /\ response' = NoResponse
       ELSE /\ outcome' = [outcome EXCEPT ![r] =
                             [saga |-> "raised", compensation |-> "raised",
                              error |-> e]]
            /\ response' = [FailureResponse(transaction_store, transactions, e)
                              EXCEPT !.task = r]

\* a forward step's call returned 2xx: steps 1..3 store their result, save
\* and suspend in the next step's call
StepSucceedsAt(r, raw) ==
  /\ pc[r] = "await"
  /\ IsForward(cur[r])
  /\ cur[r].name /= ForwardSteps[4]
  /\ LET res == CallService(cur[r].service, raw)
         id == txn[r]
         t1 == StepEffect(cur[r].name, transactions[id], res.body)
     IN /\ ~res.raised
        /\ transactions' = [transactions EXCEPT ![id] = t1]
        /\ transaction_store' = Save(transaction_store, id)
        /\ cur' = [cur EXCEPT ![r] =
                     ForwardCall(ForwardSteps[StepIndex(cur[r].name) + 1], t1)]
        /\ trace' = [trace EXCEPT ![id] =
                       @ \o << Returned(cur[r], TRUE),
                               Issue(ForwardCall(
                                 ForwardSteps[StepIndex(cur[r].name) + 1], t1)) >>]
  /\ pc' = [pc EXCEPT ![r] = "await"]
  /\ response' = NoResponse
  /\ got' = NoGot
  /\ UNCHANGED <<caller, request, txn, exc, compensations, outcome, passes,
                 stamped, exchange, tested_store, purchase_db,
                 inventory_db>>

\* step 4's call returned 2xx: the saga completes and the route answers 200
SagaCompletesAt(r, raw) ==
  /\ pc[r] = "await"
  /\ cur[r].name = ForwardSteps[4]
  /\ LET res == CallService(cur[r].service, raw)
         id == txn[r]
         t1 == StepEffect(cur[r].name, transactions[id], res.body)
         t2 == MarkCompleted(t1)
     IN /\ ~res.raised
        /\ transactions' = [transactions EXCEPT ![id] = t2]
        /\ transaction_store' = Save(transaction_store, id)
        /\ response' = [SuccessResponse(t2) EXCEPT !.task = r]
  /\ trace' = [trace EXCEPT ![txn[r]] = Append(@, Returned(cur[r], TRUE))]
  /\ stamped' = [stamped EXCEPT ![txn[r]] = @ + 1]
  /\ cur' = [cur EXCEPT ![r] = NoCall]
  /\ pc' = [pc EXCEPT ![r] = "done"]
  /\ outcome' = [outcome EXCEPT ![r] =
                   [saga |-> "returned", compensation |-> "none",
                    error |-> NoError]]
  /\ got' = NoGot
  /\ UNCHANGED <<caller, request, txn, exc, compensations, passes, exchange, tested_store, purchase_db,
                 inventory_db>>

\* a forward step's call raised: execute_saga records the error, saves and
\* enters execute_all_compensations
StepFailsAt(r, raw) ==
  /\ pc[r] = "await"
  /\ IsForward(cur[r])
  /\ LET res == CallService(cur[r].service, raw)
         id == txn[r]
         t1 == RecordError(transactions[id], res.error)
         T  == [transactions EXCEPT ![id] = t1]
     IN /\ res.raised
        /\ exc' = [exc EXCEPT ![r] = res.error]
        /\ LoopStep(r, id, T, Save(transaction_store, id),
                    CompensationPlan(t1), res.error, "route",
                    [trace EXCEPT ![id] = Append(@, Returned(cur[r], FALSE))],
                    stamped)
  /\ passes' = [passes EXCEPT ![txn[r]] = @ + 1]
  /\ got' = NoGot
  /\ UNCHANGED <<caller, request, txn, exchange, tested_store, purchase_db,
                 inventory_db>>

\* a compensating call returned or raised: the loop takes its next turn
CompensationReturnsAt(r, raw) ==
  /\ pc[r] = "await"
  /\ IsCompensation(cur[r])
  /\ LET res == CallService(cur[r].service, raw)
         it  == CompensationIteration(res)
         id  == txn[r]
         tr  == [trace EXCEPT ![id] = Append(@, Returned(cur[r], ~res.raised))]
     IN IF it.raised
          THEN LoopRaises(r, res.error, caller[r], tr)
          ELSE LoopStep(r, id, transactions, transaction_store,
                        RestOfLoop(compensations[r], transactions[id]),
                        exc[r], caller[r], tr, stamped)
  /\ got' = NoGot
  /\ UNCHANGED <<caller, request, txn, exc, passes, exchange, tested_store, purchase_db,
                 inventory_db>>

\* execute_all_compensations called directly on a record of the caller's
DirectCompensation(r, t) ==
  /\ NextToStart(r)
  /\ t.transaction_id = Len(transactions) + 1
  /\ txn' = [txn EXCEPT ![r] = t.transaction_id]
  /\ caller' = [caller EXCEPT ![r] = "direct"]
  /\ passes' = Append(passes, 1)
  /\ LoopStep(r, t.transaction_id, Append(transactions, t), transaction_store,
              CompensationPlan(t), NoError, "direct",
              Append(trace, <<>>), Append(stamped, 0))
  /\ got' = NoGot
  /\ UNCHANGED <<request, exc, exchange, tested_store, purchase_db,
                 inventory_db>>

\* GET /saga/status/{transaction_id}, for an id some saga got or will get,
\* or for one no saga has
GetTransactionStatus(r, transaction_id) ==
  /\ NextToStart(r)
  /\ pc' = [pc EXCEPT ![r] = "done"]
  /\ caller' = [caller EXCEPT ![r] = "status"]
  /\ got' = [StatusResponse(transaction_id,
                            Get(transaction_store, transactions, transaction_id))
              EXCEPT !.task = r]
  /\ response' = NoResponse
  /\ UNCHANGED <<transactions, transaction_store, request, txn, cur, exc,
                 compensations, outcome, trace, passes, stamped, exchange, tested_store, purchase_db,
                 inventory_db>>

\* GET /saga/transactions
ListTransactions(r) ==
  /\ NextToStart(r)
  /\ pc' = [pc EXCEPT ![r] = "done"]
  /\ caller' = [caller EXCEPT ![r] = "list"]
  /\ got' = [ListResponse(transaction_store, transactions) EXCEPT !.task = r]
  /\ response' = NoResponse
  /\ UNCHANGED <<transactions, transaction_store, request, txn, cur, exc,
                 compensations, outcome, trace, passes, stamped, exchange, tested_store, purchase_db,
                 inventory_db>>

\* the same steps, for whatever the participant answers
StepSucceeds(r) == \E raw \in RawOutcomes(cur[r].service) : StepSucceedsAt(r, raw)
SagaCompletes(r) == \E raw \in RawOutcomes(cur[r].service) : SagaCompletesAt(r, raw)
StepFails(r) == \E raw \in RawOutcomes(cur[r].service) : StepFailsAt(r, raw)
CompensationReturns(r) ==
  \E raw \in RawOutcomes(cur[r].service) : CompensationReturnsAt(r, raw)

Next ==
  \/ \E r \in Tasks, req \in Requests : RejectRequest(r, req)
  \/ \E r \in Tasks, req \in Requests : InitiateTransaction(r, req)
  \/ \E r \in Tasks : StepSucceeds(r)
  \/ \E r \in Tasks : SagaCompletes(r)
  \/ \E r \in Tasks : StepFails(r)
  \/ \E r \in Tasks : CompensationReturns(r)
  \/ \E r \in Tasks, transaction_id \in 1..(Len(transactions) + 1) :
        GetTransactionStatus(r, transaction_id)
  \/ \E r \in Tasks : ListTransactions(r)

\* the saga API
Spec == Init /\ [][Next]_vars

NextComp ==
  \/ \E r \in Tasks, t \in ExternalRecords(Len(transactions) + 1) :
        DirectCompensation(r, t)
  \/ \E r \in Tasks : CompensationReturns(r)

\* the compensation service driven by direct callers, on any record
SpecComp == Init /\ [][NextComp]_vars

\* what the wait in call_service can end with, one answer of each kind:
\* a decoded 200 body, a refusal, the expiry of HTTP_TIMEOUT, no connection
LiveOutcomes(service_name) ==
  { raw \in RawOutcomes(service_name) :
      \/ raw.kind /= "response"
      \/ raw.json /\ raw.status \in {200, 409} }

\* a suspended call_service returns or raises
CallReturns(r) ==
  \E raw \in LiveOutcomes(cur[r].service) :
    \/ StepSucceedsAt(r, raw)
    \/ SagaCompletesAt(r, raw)
    \/ StepFailsAt(r, raw)
    \/ CompensationReturnsAt(r, raw)

NextLive ==
  \/ \E r \in Tasks, req \in Requests : InitiateTransaction(r, req)
  \/ \E r \in Tasks : CallReturns(r)

\* the sagas when no call_service stays suspended forever: httpx ends every
\* exchange by HTTP_TIMEOUT at the latest, and the event loop resumes the task
SpecLive == Init /\ [][NextLive]_vars /\ \A r \in Tasks : WF_vars(CallReturns(r))

\* call_service invoked on its own, for one exchange
ClassifyCall(service_name, raw) ==
  /\ exchange' = [ service |-> service_name, raw |-> raw,
                   result |-> CallService(service_name, raw) ]
  /\ UNCHANGED <<transactions, transaction_store, pc, caller, request, txn, cur,
                 exc, compensations, outcome, response, trace, passes, stamped,
                 got, tested_store, purchase_db, inventory_db>>

NextCall ==
  \E service_name \in ServiceNames :
    \E raw \in HttpExchanges(service_name) : ClassifyCall(service_name, raw)

\* call_service as a function of the exchange
SpecCall == Init /\ [][NextCall]_vars

OtherVars == <<transactions, transaction_store, pc, caller, request, txn, cur,
               exc, compensations, outcome, response, trace, passes, stamped,
               got, exchange>>

\* transaction_store.save(transaction) on a store of its own
StoreSave(transaction) ==
  LET s == tested_store
      id == transaction.transaction_id
      present == {key \in StoreKeys : s.last[key] /= <<>>}
  IN /\ tested_store' =
          [ keys |-> Save(s.keys, id),
            values |-> [key \in DOMAIN s.values \cup {id} |->
                          IF key = id THEN transaction ELSE s.values[key]],
            op |-> <<"save", id>>,
            returned |-> None,
            last |-> [s.last EXCEPT ![id] = <<transaction>>],
            before |-> IF id \in present THEN s.before
                       ELSE s.before \cup {<<key, id>> : key \in present} ]
     /\ UNCHANGED <<OtherVars, purchase_db, inventory_db>>

\* transaction_store.delete(transaction_id) on a store of its own
StoreDelete(transaction_id) ==
  LET s == tested_store
  IN /\ tested_store' =
          [ keys |-> Delete(s.keys, transaction_id),
            values |-> [key \in DOMAIN s.values \ {transaction_id} |->
                          s.values[key]],
            op |-> <<"delete", transaction_id>>,
            returned |-> <<DeleteReturns(s.keys, transaction_id)>>,
            last |-> [s.last EXCEPT ![transaction_id] = <<>>],
            before |-> {pair \in s.before : /\ pair[1] /= transaction_id
                                             /\ pair[2] /= transaction_id} ]
     /\ UNCHANGED <<OtherVars, purchase_db, inventory_db>>

NextStore ==
  \/ \E transaction \in StoreRecords : StoreSave(transaction)
  \/ \E transaction_id \in StoreKeys : StoreDelete(transaction_id)

\* the store under any sequence of save and delete
SpecStore == Init /\ [][NextStore]_vars

\* one operation of the purchases service applied to the table
PurchaseStep(name, purchase_id, saga_id, done) ==
  /\ purchase_db' =
       [ rows |-> done.rows,
         op |-> [name |-> name, purchase_id |-> purchase_id, saga_id |-> saga_id],
         raised |-> done.raised,
         returned |-> done.returned,
         was_confirmed |->
           purchase_db.was_confirmed \cup
             {id \in 1..Len(done.rows) : done.rows[id].status = STATUS_CONFIRMED} ]
  /\ UNCHANGED <<OtherVars, tested_store, inventory_db>>

\* POST /purchases: process_purchase creates one more row
PurchaseProcess(succeeds) ==
  /\ Len(purchase_db.rows) < MaxReq
  /\ PurchaseStep("process", None, None, ProcessPurchase(purchase_db.rows, succeeds))

\* purchase.confirm(), purchase.cancel(), purchase.fail(error_message) on
\* the instance of an existing row
PurchaseMethod(name, id, error_message) ==
  /\ id \in 1..Len(purchase_db.rows)
  /\ name \in {"confirm", "cancel", "fail"}
  /\ PurchaseStep(name, JInt(id), None,
                  OnRow(purchase_db.rows, id,
                        CASE name = "confirm" -> Confirm(purchase_db.rows[id])
                          [] name = "cancel"  -> Cancel(purchase_db.rows[id])
                          [] name = "fail"    -> Fail(purchase_db.rows[id], error_message)))

\* PurchaseRepository.confirm_purchase / cancel_purchase / fail_purchase
PurchaseRepositoryCall(name, id, error_message) ==
  /\ name \in {"confirm_purchase", "cancel_purchase", "fail_purchase"}
  /\ PurchaseStep(name, JInt(id), None,
                  CASE name = "confirm_purchase" -> ConfirmPurchase(purchase_db.rows, id)
                    [] name = "cancel_purchase"  -> CancelPurchase(purchase_db.rows, id)
                    [] name = "fail_purchase"    ->
                         FailPurchase(purchase_db.rows, id, error_message))

\* PurchaseService.compensate_purchase(purchase_id, saga_id)
PurchaseCompensate(purchase_id, saga_id) ==
  PurchaseStep("compensate", purchase_id, saga_id,
               CompensatePurchase(purchase_db.rows, purchase_id, saga_id))

NextPurchase ==
  \/ \E succeeds \in BOOLEAN : PurchaseProcess(succeeds)
  \/ \E name \in {"confirm", "cancel", "fail"} :
       \E id \in 1..MaxReq, error_message \in ErrorMessages :
         PurchaseMethod(name, id, error_message)
  \/ \E name \in {"confirm_purchase", "cancel_purchase", "fail_purchase"} :
       \E id \in 1..(MaxReq + 1), error_message \in ErrorMessages :
         PurchaseRepositoryCall(name, id, error_message)
  \/ \E purchase_id \in PurchaseIds, saga_id \in SagaIds :
       PurchaseCompensate(purchase_id, saga_id)

\* the purchases service under any sequence of its operations
SpecPurchase == Init /\ [][NextPurchase]_vars

\* the sum of InventoryOperation.quantity (negative for a decrease) over
\* the applied and reverted operations on one product
RECURSIVE NetQuantity(_, _, _)
NetQuantity(operations, ids, product_id) ==
  IF ids = {} THEN 0
  ELSE LET id == CHOOSE key \in ids : TRUE
           row == operations[id]
       IN (IF row.product_id = product_id /\ row.status \in {"applied", "reverted"}
             THEN row.quantity ELSE 0)
          + NetQuantity(operations, ids \ {id}, product_id)

\* one operation of the inventory service applied to the tables
InventoryStep(name, operation_id, product_id, quantity, done) ==
  /\ inventory_db' =
       [ stock |-> done.stock, operations |-> done.operations,
         op |-> [name |-> name, operation_id |-> operation_id,
                 product_id |-> product_id, quantity |-> quantity],
         raised |-> done.raised, returned |-> done.returned ]
  /\ UNCHANGED <<OtherVars, tested_store, purchase_db>>

\* InventoryService.decrease_stock(operation_id, product_id, quantity)
Decrease(operation_id, product_id, quantity, no_stock) ==
  InventoryStep("decrease_stock", operation_id, product_id, quantity,
                DecreaseStock(inventory_db, operation_id, product_id, quantity,
                              no_stock))

\* InventoryService.compensate(operation_id, product_id, quantity)
Compensate(operation_id, product_id, quantity) ==
  InventoryStep("compensate", operation_id, product_id, quantity,
                InventoryCompensate(inventory_db, operation_id, product_id,
                                    quantity))

NextInventory ==
  \/ \E operation_id \in OperationIds, product_id \in Products,
        quantity \in Quantities, no_stock \in BOOLEAN :
       Decrease(operation_id, product_id, quantity, no_stock)
  \/ \E operation_id \in OperationIds, product_id \in Products,
        quantity \in Quantities :
       Compensate(operation_id, product_id, quantity)

\* the inventory service under any sequence of its operations
SpecInventory == Init /\ [][NextInventory]_vars

\* ------------------------------------------------- reading the history
TxIds == 1..Len(transactions)

\* the tasks that ran execute_saga on a record
SagaTasks == {r \in Tasks : caller[r] = "route" /\ txn[r] /= 0}

Events(id, ev, calls) ==
  {i \in 1..Len(trace[id]) : trace[id][i].ev = ev /\ trace[id][i].call \in calls}

ForwardNames == {"catalog", "payments", "inventory", "purchases"}
CompensationNames == {"cancel", "refund"}

\* the forward steps of a transaction whose call returned 2xx
Succeeded(id) ==
  {trace[id][i].call : i \in {j \in Events(id, "return", ForwardNames) : trace[id][j].ok}}

\* the forward steps of a transaction whose call raised
FailedSteps(id) ==
  {trace[id][i].call : i \in {j \in Events(id, "return", ForwardNames) : ~trace[id][j].ok}}

IsCompensationIssue(e) == e.ev = "issue" /\ e.call \in CompensationNames

RECURSIVE Names(_)
Names(events) ==
  IF events = <<>> THEN <<>> ELSE <<Head(events).call>> \o Names(Tail(events))

\* the compensating calls issued for a transaction, in order
CompensationsIssued(id) == Names(SelectSeq(trace[id], IsCompensationIssue))

\* the service a compensating call is sent to
CompensatingService(call_name) ==
  IF call_name = "cancel" THEN "purchases" ELSE "payments"

IsForwardIssue(e) == e.ev = "issue" /\ e.call \in ForwardNames

\* the forward calls issued for a transaction, in order
ForwardIssued(id) == Names(SelectSeq(trace[id], IsForwardIssue))

\* the compensations of the steps before step k, last step first
CompensationsOfStepsBefore(k) ==
  (IF k > 4 THEN <<"cancel">> ELSE <<>>) \o (IF k > 2 THEN <<"refund">> ELSE <<>>)
\* ------------------------------------------------------------- claims

\* C1: whenever all four forward steps of a valid request succeeded,
\* execute_saga ends with the record COMPLETED, completed_at set, product_id
\* and payment_id non-null, inventory_updated and purchase_registered true.
C1_CompletedRecordPopulated ==
  \A r \in SagaTasks :
    (pc[r] = "done" /\ Succeeded(txn[r]) = ForwardNames) =>
      LET t == transactions[txn[r]] IN
        /\ t.status = COMPLETED
        /\ t.completed_at /= None
        /\ t.product_id /= None
        /\ t.payment_id /= None
        /\ t.inventory_updated
        /\ t.purchase_registered

\* C2: when forward step k fails after steps 1..k-1 succeeded, exactly the
\* compensations of steps 1..k-1 are invoked, last step first, and the
\* record ends COMPENSATED.
C2_CompensationsOfSucceededSteps ==
  \A r \in SagaTasks :
    (pc[r] = "done" /\ FailedSteps(txn[r]) /= {}) =>
      LET id == txn[r]
          k  == StepIndex(CHOOSE step \in FailedSteps(id) : TRUE)
      IN /\ CompensationsIssued(id) = CompensationsOfStepsBefore(k)
         /\ transactions[id].status = COMPENSATED

\* C3: a record starts PENDING and its status changes at most once: no
\* step takes a record out of COMPLETED or COMPENSATED.
C3_StatusMonotonic ==
  [][ /\ \A id \in TxIds :
            transactions[id].status /= PENDING =>
              transactions'[id].status = transactions[id].status
      /\ \A id \in 1..Len(transactions') :
            id \notin TxIds => transactions'[id].status = PENDING ]_vars

C3_Witness ==
  /\ \E id \in TxIds : transactions[id].status = COMPLETED
  /\ \E id \in TxIds : transactions[id].status = COMPENSATED

\* C4: the POST answers 200 with status COMPLETED exactly when the saga
\* completed, and 409 with status COMPENSATED and the error of the failed
\* step whenever a forward step failed, whatever the kind of failure.
C4_ResponseReportsOutcome ==
  (response.task /= 0 /\ response.code /= 422) =>
    LET r  == response.task
        id == txn[r]
    IN /\ (response.code = 200) <=> (transactions[id].status = COMPLETED)
       /\ response.code = 200 => response.status = COMPLETED
       /\ FailedSteps(id) /= {} =>
            /\ response.code = 409
            /\ response.status = COMPENSATED
            /\ response.error = StrExc(exc[r])

\* C5: a 409 response carries the transaction_id, product_id, payment_id
\* and error of the record created for the request it answers.
C5_FailureResponseOwnRecord ==
  response.code = 409 =>
    LET t == transactions[txn[response.task]] IN
      /\ response.transaction_id = t.transaction_id
      /\ response.product_id = t.product_id
      /\ response.payment_id = t.payment_id
      /\ response.error = t.error_message
\* C6: when a record has both purchase_registered and payment_id, the
\* purchase-cancel call is issued first and has returned before the
\* payment-refund call is issued; at most one compensating call of a
\* transaction is in flight.
C6_CancelAwaitedBeforeRefund ==
  \A id \in TxIds :
    (transactions[id].purchase_registered /\ Truthy(transactions[id].payment_id)) =>
      /\ trace[id] /= <<>>
      /\ trace[id][1].ev = "issue" /\ trace[id][1].call = "cancel"
      /\ \A i \in Events(id, "issue", {"refund"}) :
            \E j \in Events(id, "return", {"cancel"}) : j < i
      /\ Cardinality(Events(id, "issue", CompensationNames))
           - Cardinality(Events(id, "return", CompensationNames)) \in {0, 1}

C6_Witness ==
  \E id \in TxIds :
    /\ transactions[id].purchase_registered
    /\ Truthy(transactions[id].payment_id)
    /\ Events(id, "return", {"cancel"}) /= {}
    /\ Events(id, "issue", {"refund"}) /= {}

\* C7: a compensating call is issued only for a step whose success marker
\* is set on the record (payment_id for the refund, purchase_registered for
\* the cancel); when the catalog or the payment step failed, none is issued.
C7_OnlyMarkedStepsCompensated ==
  \A id \in TxIds :
    /\ \A i \in Events(id, "issue", {"refund"}) :
          /\ Truthy(transactions[id].payment_id)
          /\ trace[id][i].arg.payment_id = transactions[id].payment_id
    /\ \A i \in Events(id, "issue", {"cancel"}) :
          transactions[id].purchase_registered
    /\ FailedSteps(id) \cap {"catalog", "payments"} /= {} =>
          Events(id, "issue", CompensationNames) = {}

C7_Witness ==
  \E id \in TxIds :
    /\ "payments" \in FailedSteps(id)
    /\ passes[id] = 1
    /\ transactions[id].status = COMPENSATED

\* C8: when the purchase registration fails after the product, payment and
\* inventory steps succeeded, the payment refund is invoked exactly once,
\* for the stored payment_id, the purchase cancel is not invoked, and the
\* record ends COMPENSATED.
C8_RefundAfterPurchaseFailure ==
  \A r \in SagaTasks :
    (pc[r] = "done" /\ "purchases" \in FailedSteps(txn[r])) =>
      LET id == txn[r] IN
        /\ Cardinality(Events(id, "issue", {"refund"})) = 1
        /\ \A i \in Events(id, "issue", {"refund"}) :
              trace[id][i].arg.payment_id = transactions[id].payment_id
        /\ Events(id, "issue", {"cancel"}) = {}
        /\ transactions[id].status = COMPENSATED

\* C9: execute_all_compensations never raises: whatever the record and
\* whatever the compensating calls do, it ends by returning normally.
C9_CompensationsNeverRaise ==
  \A r \in Tasks :
    /\ outcome[r].compensation /= "raised"
    /\ (caller[r] = "direct" /\ pc[r] = "done") =>
          outcome[r].compensation = "returned"

C9_Witness ==
  \E r \in Tasks :
    /\ caller[r] = "direct" /\ pc[r] = "done"
    /\ outcome[r].compensation = "returned"
    /\ \E i \in Events(txn[r], "return", {"cancel"}) : ~trace[txn[r]][i].ok
    /\ \E i \in Events(txn[r], "return", {"refund"}) : ~trace[txn[r]][i].ok

\* C10: a compensation pass runs once for a transaction whose forward step
\* failed and never for one that completes; no compensating endpoint is
\* called twice for a transaction; the record of the failed transaction ends
\* COMPENSATED even when its compensating calls fail.
C10_OneCompensationPass ==
  \A r \in SagaTasks :
    LET id == txn[r] IN
      /\ passes[id] = (IF FailedSteps(id) /= {} THEN 1 ELSE 0)
      /\ transactions[id].status = COMPLETED => passes[id] = 0
      /\ \A c \in CompensationNames : Cardinality(Events(id, "issue", {c})) <= 1
      /\ (pc[r] = "done" /\ FailedSteps(id) /= {}) =>
            transactions[id].status = COMPENSATED

C10_Witness ==
  \E r \in SagaTasks :
    /\ pc[r] = "done"
    /\ \E i \in Events(txn[r], "return", {"refund"}) : ~trace[txn[r]][i].ok
    /\ transactions[txn[r]].status = COMPENSATED

\* C11: every started saga eventually reaches a terminal status, COMPLETED
\* or COMPENSATED, provided each remote call eventually returns, times out
\* or fails; a failing compensating call does not leave the record PENDING.
\* (Stated as: again and again, every saga started so far is terminal.  A
\* saga started at some moment is terminal at the next such moment.)
C11_EverySagaTerminates ==
  []<>(\A id \in TxIds : transactions[id].status \in {COMPLETED, COMPENSATED})

C11_Witness ==
  /\ \A r \in Tasks : pc[r] = "done"
  /\ \E id \in TxIds :
        /\ transactions[id].status = COMPENSATED
        /\ \E i \in Events(id, "return", {"refund"}) : ~trace[id][i].ok
        /\ \A i \in Events(id, "issue", CompensationNames) :
              \E j \in Events(id, "return", CompensationNames) : j > i

\* C12: a POST whose amount is zero or negative, or that lacks user_id or
\* amount, is answered 422 before any step runs: the task makes no remote
\* call and no record is created, so every record in the store stems from
\* a request with a user_id and a strictly positive amount, and there are
\* exactly as many records as accepted requests.
C12_InvalidRequestRejected ==
  /\ response.code = 422 =>
        /\ caller[response.task] = "route"
        /\ txn[response.task] = 0
  /\ \A r \in Tasks :
        (caller[r] = "route" /\ txn[r] = 0) =>
          /\ pc[r] = "done"
          /\ cur[r] = NoCall
          /\ outcome[r] = NoOutcome
  /\ Len(transactions) = Cardinality(SagaTasks)
  /\ Len(transaction_store) = Cardinality(SagaTasks)
  /\ Len(trace) = Cardinality(SagaTasks)
  /\ \A id \in TxIds :
        /\ transactions[id].user_id /= None
        /\ transactions[id].amount /= None
        /\ transactions[id].amount[2] > 0

C12_Witness ==
  /\ response.code = 422
  /\ response.task = 2
  /\ txn[1] = 1
  /\ Len(transaction_store) = 1

\* C13: a status lookup answers 404 exactly when the store holds no record
\* for the id and 200 with the stored record otherwise; the record of a saga
\* is found from the moment execute_saga created it, PENDING ones included.
C13_StatusLookup ==
  /\ \A id \in TxIds : \E i \in 1..Len(transaction_store) : transaction_store[i] = id
  /\ got.route = "status" =>
        /\ got.code \in {200, 404}
        /\ got.code = 404 <=>
              ~\E i \in 1..Len(transaction_store) :
                  transaction_store[i] = got.transaction_id
        /\ got.code = 200 <=> got.transaction_id \in TxIds
        /\ got.code = 200 => got.found = <<transactions[got.transaction_id]>>
        /\ got.code = 404 => got.found = <<>>

C13_Witness ==
  /\ got.route = "status"
  /\ got.code = 200
  /\ got.found[1].status = PENDING
  /\ got.found[1].product_id /= None

\* C14: once a record is COMPLETED or COMPENSATED no step changes any of its
\* fields, whichever transaction takes the step; a lookup changes neither
\* the records nor the store and answers with the record as stored, so all
\* lookups of a terminal transaction return the same record.
C14_TerminalRecordFrozen ==
  [][ /\ \A id \in TxIds :
            transactions[id].status \in {COMPLETED, COMPENSATED} =>
              /\ transactions'[id] = transactions[id]
              /\ \E i \in 1..Len(transaction_store') : transaction_store'[i] = id
      /\ got'.route /= "none" =>
            /\ transactions' = transactions
            /\ transaction_store' = transaction_store
      /\ (got'.route = "status" /\ got'.code = 200) =>
            got'.found = <<transactions[got'.transaction_id]>> ]_vars

C14_Witness ==
  /\ got.route = "status"
  /\ got.code = 200
  /\ got.found[1].status = COMPENSATED
  /\ got.found[1].completed_at /= None
  /\ got.found[1].error_message /= None

\* C15: at any moment the store holds exactly the transactions created so
\* far, one entry per started saga, in flight or ended, none removed; the
\* listing returns these records and a total equal to the list's length.
C15_ListingIsAllCreated ==
  /\ Len(transaction_store) = Len(transactions)
  /\ \A i \in 1..Len(transaction_store) : transaction_store[i] = i
  /\ Len(transaction_store) = Cardinality(SagaTasks)
  /\ got.route = "list" =>
        /\ got.code = 200
        /\ got.total = Len(got.transactions)
        /\ Len(got.transactions) = Len(transactions)
        /\ \A id \in TxIds :
              \E i \in 1..Len(got.transactions) :
                got.transactions[i] = transactions[id]

C15_Witness ==
  /\ got.route = "list"
  /\ got.total = 1
  /\ got.transactions[1].status = PENDING
  /\ got.transactions[1].payment_id /= None

\* C16: call_service puts every outcome of an outbound call in one class:
\* a 2xx returns the decoded body; a 409 raises a conflict error of status
\* 409, which no other outcome raises; a timeout raises 504; any other
\* non-2xx raises an error with the status received; a connection failure
\* raises 503.
C16_CallClassification ==
  exchange.service \in SERVICES =>
    LET raw == exchange.raw
        res == exchange.result
        answered == raw.kind = "response"
    IN /\ (answered /\ raw.status \in 200..299) =>
             (~res.raised /\ res.body = raw.body)
       /\ (answered /\ raw.status = 409) =>
             /\ res.raised
             /\ res.error = HTTPException(409, "conflict", exchange.service)
       /\ (res.raised /\ res.error.status_code = 409) =>
             (answered /\ raw.status = 409)
       /\ raw.kind = "timeout" =>
             (res.raised /\ res.error.status_code = 504)
       /\ (answered /\ raw.status \notin 200..299 /\ raw.status /= 409) =>
             (res.raised /\ res.error.status_code = raw.status)
       /\ raw.kind = "connect_error" =>
             (res.raised /\ res.error.status_code = 503)

\* C17: completed_at is assigned exactly once, in the step that makes the
\* record terminal: in every state, hence in every record a status lookup
\* returns, completed_at is null if and only if the status is PENDING, and
\* a record's completed_at has been assigned once if terminal, never if not.
C17_CompletedAtSetOnce ==
  /\ \A id \in TxIds :
        /\ transactions[id].completed_at = None <=> transactions[id].status = PENDING
        /\ stamped[id] = (IF transactions[id].status = PENDING THEN 0 ELSE 1)
  /\ (got.route = "status" /\ got.code = 200) =>
        (got.found[1].completed_at = None <=> got.found[1].status = PENDING)

C17_Witness ==
  /\ got.route = "status"
  /\ got.code = 200
  /\ got.found[1].status = COMPLETED
  /\ got.found[1].completed_at = Now
  /\ stamped[got.transaction_id] = 1

C21_RaisesAfterCompensated ==
  \A r \in SagaTasks :
    LET id == txn[r]
        t  == transactions[id]
    IN /\ pc[r] = "done" <=> outcome[r].saga \in {"returned", "raised"}
       /\ outcome[r].saga = "returned" <=> t.status = COMPLETED
       /\ outcome[r].saga = "raised" <=> (pc[r] = "done" /\ FailedSteps(id) /= {})
       /\ outcome[r].saga = "raised" =>
             /\ t.status = COMPENSATED
             /\ t.completed_at /= None
             /\ Get(transaction_store, transactions, id) = <<t>>
             /\ outcome[r].error = exc[r]
             /\ t.error_message = StrExc(outcome[r].error)
             /\ outcome[r].error /= NoError

C21_Witness ==
  \E r \in SagaTasks :
    /\ outcome[r].saga = "raised"
    /\ outcome[r].error.status_code = 504
    /\ "purchases" \in FailedSteps(txn[r])
    /\ \E i \in Events(txn[r], "return", {"refund"}) : ~trace[txn[r]][i].ok

\* C22: a failing compensation does not block the next one: on a record
\* with purchase_registered and a payment_id, whenever the purchase-cancel
\* call has failed, in whatever way, the payment-refund call is the next
\* call issued, in the same turn of the loop.
C22_RefundAfterFailedCancel ==
  \A id \in TxIds :
    \A i \in Events(id, "return", {"cancel"}) :
      (~trace[id][i].ok /\ Truthy(transactions[id].payment_id)) =>
        /\ Len(trace[id]) > i
        /\ trace[id][i + 1].ev = "issue"
        /\ trace[id][i + 1].call = "refund"
        /\ trace[id][i + 1].arg.payment_id = transactions[id].payment_id

C22_Witness ==
  \E id \in TxIds :
    /\ transactions[id].purchase_registered
    /\ \E i \in Events(id, "return", {"cancel"}) : ~trace[id][i].ok
    /\ \E i \in Events(id, "return", {"refund"}) : trace[id][i].ok

\* C23: after every step, inventory_updated is true exactly when the
\* inventory call of the transaction has returned successfully, and
\* purchase_registered exactly when the purchase call has; neither flag
\* goes back to false; and from the moment the compensation pass has
\* started no step changes product_id, payment_id, inventory_updated,
\* purchase_registered or error_message.
C23_FlagsRecordHistory ==
  [][ \A id \in 1..Len(transactions') :
        LET t2 == transactions'[id] IN
          /\ t2.inventory_updated <=> "inventory" \in Succeeded(id)'
          /\ t2.purchase_registered <=> "purchases" \in Succeeded(id)'
          /\ id \in TxIds =>
                LET t1 == transactions[id] IN
                  /\ t1.inventory_updated => t2.inventory_updated
                  /\ t1.purchase_registered => t2.purchase_registered
                  /\ passes[id] = 1 =>
                        /\ t2.product_id = t1.product_id
                        /\ t2.payment_id = t1.payment_id
                        /\ t2.inventory_updated = t1.inventory_updated
                        /\ t2.purchase_registered = t1.purchase_registered
                        /\ t2.error_message = t1.error_message ]_vars

C23_Witness ==
  \E id \in TxIds :
    /\ transactions[id].status = COMPENSATED
    /\ transactions[id].inventory_updated
    /\ ~transactions[id].purchase_registered
    /\ Events(id, "return", {"refund"}) /= {}

\* C24: at every suspension point of a saga, the issue of the call of step
\* k+1 included, the record the store returns for the transaction shows
\* the results of the steps that have succeeded so far, steps 1..k while a
\* forward call is in flight: product_id, payment_id and the two flags are
\* those the steps assigned, and the call in flight carries them.
C24_StoreShowsProgress ==
  \A r \in SagaTasks :
    pc[r] = "await" =>
      LET id == txn[r]
          stored == Get(transaction_store, transactions, id)
      IN /\ stored /= <<>>
         /\ stored[1].status = PENDING
         /\ stored[1].product_id /= None <=> "catalog" \in Succeeded(id)
         /\ stored[1].payment_id /= None => "payments" \in Succeeded(id)
         /\ stored[1].inventory_updated <=> "inventory" \in Succeeded(id)
         /\ stored[1].purchase_registered <=> "purchases" \in Succeeded(id)
         /\ cur[r].name \in ForwardNames =>
               Succeeded(id) = {ForwardSteps[j] : j \in 1..(StepIndex(cur[r].name) - 1)}
         /\ cur[r].name \in {"payments", "inventory", "purchases"} =>
               cur[r].arg.product_id = stored[1].product_id
         /\ cur[r].name = "purchases" =>
               cur[r].arg.payment_id = stored[1].payment_id
         /\ cur[r].name = "refund" =>
               cur[r].arg.payment_id = stored[1].payment_id

C24_Witness ==
  \E r \in SagaTasks :
    /\ pc[r] = "await"
    /\ cur[r].name = "purchases"
    /\ Get(transaction_store, transactions, txn[r])[1].inventory_updated
    /\ Get(transaction_store, transactions, txn[r])[1].payment_id = <<"str", 123>>

\* C25: payment_id is null until the payment step has succeeded and
\* non-null in every state after it has, whatever 2xx body the payment
\* service answered with; so when a later step fails after an accepted
\* payment, the refund is issued.
C25_PaymentIdAfterPayment ==
  \A r \in SagaTasks :
    LET id == txn[r] IN
      /\ transactions[id].payment_id /= None <=> "payments" \in Succeeded(id)
      /\ (pc[r] = "done" /\ "payments" \in Succeeded(id) /\ FailedSteps(id) /= {}) =>
            Events(id, "issue", {"refund"}) /= {}

\* C26: error_message is set only on failure: a COMPLETED record has it
\* null, a COMPENSATED record has it set, and in every state it is set
\* exactly when a forward step of the transaction has failed.
C26_ErrorMessageOnlyOnFailure ==
  \A id \in TxIds :
    LET t == transactions[id] IN
      /\ t.status = COMPLETED => t.error_message = None
      /\ t.status = COMPENSATED => (t.error_message /= None /\ t.error_message /= EmptyStr)
      /\ t.error_message /= None <=> FailedSteps(id) /= {}

C26_Witness ==
  /\ \E id \in TxIds :
        transactions[id].status = COMPLETED /\ transactions[id].error_message = None
  /\ \E id \in TxIds :
        /\ transactions[id].status = COMPENSATED
        /\ transactions[id].error_message = StrExc(HTTPException(409, "conflict", "inventory"))

\* C27: transactions are independent: a step changes the record and the
\* calls of one transaction at most, the one of the task that takes the
\* step, and no other task moves; the compensating call a task issues
\* names the payment_id and the transaction_id of its own record.
C27_TransactionsIndependent ==
  [][ /\ \A id \in TxIds :
            (transactions'[id] /= transactions[id] \/ trace'[id] /= trace[id]) =>
              \E r \in Tasks :
                /\ txn[r] = id
                /\ pc[r] = "await"
                /\ (pc'[r] /= pc[r] \/ cur'[r] /= cur[r])
                /\ \A q \in Tasks \ {r} : pc'[q] = pc[q] /\ cur'[q] = cur[q]
                /\ \A other \in TxIds \ {id} :
                      /\ transactions'[other] = transactions[other]
                      /\ trace'[other] = trace[other]
      /\ \A r \in Tasks :
            (pc'[r] = "await" /\ cur'[r].name \in CompensationNames) =>
              LET t == transactions'[txn'[r]] IN
                /\ cur'[r].name = "refund" =>
                      cur'[r].arg = [NoArg EXCEPT !.payment_id = t.payment_id]
                /\ cur'[r].name = "cancel" =>
                      cur'[r].arg = [NoArg EXCEPT !.transaction_id = t.transaction_id]
    ]_vars

C27_Witness ==
  /\ Len(transactions) = 2
  /\ transactions[1].status = PENDING
  /\ transactions[1].product_id = None
  /\ transactions[2].status = COMPENSATED
  /\ Events(2, "return", {"refund"}) /= {}

\* C28: a transaction suspended in the latency delay or in a remote call
\* blocks nobody: while task a waits, the next request can be taken up and
\* every other waiting task can take its next step, a staying suspended
\* with its call and its record untouched; so a transaction started later
\* can run to a terminal status before a resumes.
C28_SuspensionDoesNotBlock ==
  \A a \in Tasks : pc[a] = "await" =>
    \A b \in Tasks \ {a} :
      /\ (pc[b] = "idle" /\ \A q \in Tasks : q < b => pc[q] /= "idle") =>
            ENABLED (/\ \E req \in Requests : InitiateTransaction(b, req)
                     /\ pc'[a] = "await"
                     /\ cur'[a] = cur[a]
                     /\ transactions'[txn[a]] = transactions[txn[a]])
      /\ pc[b] = "await" =>
            ENABLED (/\ \/ StepSucceeds(b)
                        \/ SagaCompletes(b)
                        \/ StepFails(b)
                        \/ CompensationReturns(b)
                     /\ pc'[a] = "await"
                     /\ cur'[a] = cur[a]
                     /\ transactions'[txn[a]] = transactions[txn[a]])

C28_Witness ==
  /\ Len(transactions) = 2
  /\ pc[1] = "await" /\ txn[1] = 1
  /\ cur[1].name = "catalog"
  /\ Len(trace[1]) = 1
  /\ pc[2] = "done" /\ txn[2] = 2
  /\ transactions[2].status = COMPLETED
  /\ Events(2, "return", {"purchases"}) /= {}

C30_InventoryCompensated ==
  \A r \in SagaTasks :
    LET id == txn[r] IN
      ( /\ pc[r] = "done"
        /\ "purchases" \in FailedSteps(id)
        /\ {"payments", "inventory"} \subseteq Succeeded(id)
        /\ Truthy(transactions[id].payment_id) ) =>
          /\ \E i \in Events(id, "issue", CompensationNames) :
                CompensatingService(trace[id][i].call) = "payments"
          /\ \E i \in Events(id, "issue", CompensationNames) :
                CompensatingService(trace[id][i].call) = "inventory"

\* C31: Purchase.confirm() succeeds only from status pending, setting it to
\* confirmed; on a purchase in any other status it raises ValueError and
\* leaves the status unchanged.
C31_ConfirmOnlyFromPending ==
  [][ purchase_db'.op.name = "confirm" =>
        LET id == purchase_db'.op.purchase_id[2]
            before == purchase_db.rows[id].status
            after == purchase_db'.rows[id].status
        IN /\ before = STATUS_PENDING =>
                ~purchase_db'.raised /\ after = STATUS_CONFIRMED
           /\ before /= STATUS_PENDING =>
                purchase_db'.raised /\ after = before
    ]_vars

C31_Witness ==
  /\ purchase_db.op.name = "confirm"
  /\ purchase_db.raised
  /\ purchase_db.rows[purchase_db.op.purchase_id[2]].status = STATUS_FAILED
  /\ \E id \in 1..Len(purchase_db.rows) :
        purchase_db.rows[id].status = STATUS_CANCELLED

\* C32: Purchase.cancel() on a confirmed purchase raises ValueError and
\* leaves the status confirmed; on a purchase in any other status it sets
\* the status to cancelled. cancel_purchase of the repository answers
\* False in the first case and True in the second.
C32_CancelExceptConfirmed ==
  [][ /\ purchase_db'.op.name = "cancel" =>
           LET id == purchase_db'.op.purchase_id[2]
               before == purchase_db.rows[id].status
               after == purchase_db'.rows[id].status
           IN /\ before = STATUS_CONFIRMED =>
                   purchase_db'.raised /\ after = STATUS_CONFIRMED
              /\ before /= STATUS_CONFIRMED =>
                   ~purchase_db'.raised /\ after = STATUS_CANCELLED
      /\ ( /\ purchase_db'.op.name = "cancel_purchase"
           /\ purchase_db'.op.purchase_id[2] \in 1..Len(purchase_db.rows) ) =>
           LET id == purchase_db'.op.purchase_id[2]
               before == purchase_db.rows[id].status
               after == purchase_db'.rows[id].status
           IN /\ ~purchase_db'.raised
              /\ purchase_db'.returned = <<before /= STATUS_CONFIRMED>>
              /\ after = (IF before = STATUS_CONFIRMED THEN STATUS_CONFIRMED
                                                        ELSE STATUS_CANCELLED)
    ]_vars

C32_Witness ==
  /\ purchase_db.op.name = "cancel"
  /\ purchase_db.raised
  /\ purchase_db.rows[purchase_db.op.purchase_id[2]].status = STATUS_CONFIRMED
  /\ \E id \in 1..Len(purchase_db.rows) :
        /\ purchase_db.rows[id].status = STATUS_CANCELLED
        /\ purchase_db.rows[id].error_message /= None

\* C33: compensate_purchase never raises and reports its outcome as a
\* value: for a confirmed purchase, which every purchase reported as
\* successful by process_purchase is, it returns success False with error
\* INVALID_STATE and leaves the purchase confirmed; for an unknown
\* purchase it returns NOT_FOUND; with neither purchase_id nor saga_id it
\* returns MISSING_IDENTIFIER.
C33_CompensateReportsByValue ==
  [][ /\ purchase_db'.op.name = "compensate" =>
           LET purchase_id == purchase_db'.op.purchase_id
               saga_id == purchase_db'.op.saga_id
               rows == purchase_db.rows
               named == {id \in 1..Len(rows) :
                           IF Truthy(saga_id) THEN rows[id].saga_id = saga_id
                                              ELSE purchase_id = JInt(id)}
               returned == purchase_db'.returned
           IN /\ ~purchase_db'.raised
              /\ (~Truthy(saga_id) /\ ~Truthy(purchase_id)) =>
                   /\ ~returned.success
                   /\ returned.error = "MISSING_IDENTIFIER"
                   /\ purchase_db'.rows = rows
              /\ ((Truthy(saga_id) \/ Truthy(purchase_id)) /\ named = {}) =>
                   /\ ~returned.success
                   /\ returned.error = "NOT_FOUND"
                   /\ purchase_db'.rows = rows
              /\ \A id \in named : rows[id].status = STATUS_CONFIRMED =>
                   /\ ~returned.success
                   /\ returned.error = "INVALID_STATE"
                   /\ purchase_db'.rows = rows
      /\ ( /\ purchase_db'.op.name = "process"
           /\ purchase_db'.returned.success ) =>
           /\ purchase_db'.returned.purchase_id = Len(purchase_db'.rows)
           /\ purchase_db'.rows[Len(purchase_db'.rows)].status = STATUS_CONFIRMED
    ]_vars

C33_Witness ==
  /\ purchase_db.op.name = "compensate"
  /\ Truthy(purchase_db.op.saga_id)
  /\ purchase_db.returned.error = "INVALID_STATE"
  /\ purchase_db.returned.purchase_id = Len(purchase_db.rows)
  /\ purchase_db.rows[Len(purchase_db.rows)].status = STATUS_CONFIRMED
  /\ Len(purchase_db.rows) = 2

\* C34: decrease_stock is idempotent per operation_id: a call with an
\* operation_id already applied returns 'updated' and changes nothing, so
\* the stock of a product is what it was at the start, less the quantity
\* of each applied operation once (plus what was restored); a call that
\* fails leaves the stock unchanged; a first successful call reduces the
\* stock of its product by its quantity.
C34_DecreaseIdempotent ==
  [][ inventory_db'.op.name = "decrease_stock" =>
        LET db == inventory_db
            after == inventory_db'
            o == after.op
            applied == /\ o.operation_id \in DOMAIN db.operations
                       /\ db.operations[o.operation_id].status = "applied"
        IN /\ applied =>
                /\ after.stock = db.stock
                /\ after.operations = db.operations
                /\ db.operations[o.operation_id].product_id = o.product_id =>
                     /\ after.raised = "none"
                     /\ after.returned.status = "updated"
                     /\ after.returned.stock = db.stock[o.product_id]
           /\ after.raised /= "none" =>
                after.stock = db.stock /\ after.operations = db.operations
           /\ (after.raised = "none" /\ ~applied) =>
                /\ o.product_id \in DOMAIN db.stock
                /\ db.stock[o.product_id] >= o.quantity
                /\ after.stock =
                     [db.stock EXCEPT ![o.product_id] = @ - o.quantity]
                /\ after.operations[o.operation_id].status = "applied"
           /\ \A product_id \in DOMAIN after.stock :
                /\ after.stock[product_id] >= 0
                /\ after.stock[product_id] =
                     (IF product_id \in DOMAIN InitialInventory.stock
                        THEN InitialInventory.stock[product_id] ELSE 0)
                     + NetQuantity(after.operations, DOMAIN after.operations,
                                   product_id)
    ]_vars

C34_Witness ==
  /\ inventory_db.op.name = "decrease_stock"
  /\ inventory_db.raised = "none"
  /\ inventory_db.returned.idempotent
  /\ inventory_db.returned.status = "updated"
  /\ inventory_db.stock[1] = MaxReq - inventory_db.op.quantity

\* C35: compensate is idempotent per operation_id and always succeeds: a
\* repeated call restores nothing more, a first call restores its
\* quantity, and the call returns 'compensated' without raising for every
\* operation_id, one already used by a decrease_stock operation included.
C35_CompensateAlwaysSucceeds ==
  [][ inventory_db'.op.name = "compensate" =>
        LET db == inventory_db
            after == inventory_db'
            o == after.op
            known == o.operation_id \in DOMAIN db.operations
            reverted == known /\ db.operations[o.operation_id].status = "reverted"
            old == IF o.product_id \in DOMAIN db.stock
                     THEN db.stock[o.product_id] ELSE 0
        IN /\ reverted => after.stock = db.stock
           /\ (reverted => db.operations[o.operation_id].product_id = o.product_id) =>
                /\ after.raised = "none"
                /\ after.returned.status = "compensated"
                /\ ~reverted => after.stock[o.product_id] = old + o.quantity
    ]_vars

\* C36: the orchestrator never assigns the status FAILED: every record
\* created by execute_saga is PENDING, COMPLETED or COMPENSATED.
C36_NeverFailed ==
  \A id \in TxIds :
    /\ transactions[id].status \in {PENDING, COMPLETED, COMPENSATED}
    /\ transactions[id].status /= FAILED

C36_Witness ==
  \E r \in SagaTasks :
    /\ pc[r] = "done"
    /\ outcome[r].saga = "raised"
    /\ outcome[r].error.status_code = 503
    /\ "catalog" \in FailedSteps(txn[r])
    /\ transactions[txn[r]].status = COMPENSATED

\* C37: execute_saga never invokes the purchase-cancel compensation:
\* purchase_registered is set only when the last forward step has
\* succeeded, no step fails after that, and every compensation pass it
\* starts sees purchase_registered false.
C37_CancelNeverInvoked ==
  \A r \in SagaTasks :
    LET id == txn[r]
        t == transactions[id]
    IN /\ cur[r].name /= "cancel"
       /\ \A i \in 1..Len(compensations[r]) : compensations[r][i] /= "purchase"
       /\ Events(id, "issue", {"cancel"}) = {}
       /\ t.purchase_registered =>
            /\ "purchases" \in Succeeded(id)
            /\ FailedSteps(id) = {}
            /\ passes[id] = 0
       /\ passes[id] > 0 => ~t.purchase_registered

C37_Witness ==
  \E r \in SagaTasks :
    /\ pc[r] = "await"
    /\ cur[r].name = "refund"
    /\ passes[txn[r]] = 1
    /\ "purchases" \in FailedSteps(txn[r])
    /\ transactions[txn[r]].inventory_updated

\* C38: once a purchase has been confirmed, no sequence of confirm(),
\* cancel() and fail() calls brings it to status cancelled.
C38_ConfirmedNeverCancelled ==
  \A id \in purchase_db.was_confirmed :
    purchase_db.rows[id].status /= STATUS_CANCELLED

====
